---- MODULE Spec2Model ----
(***************************************************************************)
(* A model of lineage/utils.py: Parallelizer (a toggle between             *)
(* multiprocessing.Pool.map and the builtin map) and save_df_as_csv        *)
(* (create_dir followed by an atomicwrites.atomic_write of a header and    *)
(* the CSV form of a DataFrame), create_dir and the Singleton metaclass.   *)
(*                                                                         *)
(* Library behaviour (multiprocessing.Pool, builtin map, os.makedirs,      *)
(* atomicwrites) is modelled at the call sites of utils.py by what CPython *)
(* 3 and atomicwrites 1.x do there.                                        *)
(***************************************************************************)
EXTENDS Integers, Sequences, FiniteSets, TLC

\* ------------------------------------------------------------------ bounds
MaxTasks == 5          \* longest task list explored
CpuCount == 1          \* os.cpu_count() of the host
MaxRows == 2           \* most data rows of a DataFrame explored
MaxDirCalls == 3       \* most create_dir calls in a row explored
MaxInstCalls == 4      \* most instantiations of Singleton classes explored

\* ------------------------------------------------------------- value sets
NoneV == <<>>                          \* Python None, as an empty option
Some(x) == <<x>>                       \* a present optional value

TaskVals == {"t1", "t2"}               \* task descriptors
ResVals == {"a", "b"}                  \* values f can return
Raises == "raise"                      \* f raises on this task
ProcChoices == {NoneV, Some(-1), Some(0), Some(1), Some(2)}

TaskSeqs == UNION {[1..n -> TaskVals] : n \in 0..MaxTasks}

\* The functions f explored: t1 yields "a" or raises, t2 yields "b" or
\* raises, so that a result put at the wrong index shows.
FChoices == {g \in [TaskVals -> ResVals \cup {Raises}] :
                g["t1"] # "b" /\ g["t2"] # "a"}

ValueError == <<"ValueError", 0>>      \* raised by Pool for a count below 1
ExcOf(i) == <<"exc", i>>               \* what f raises on task index i

VARIABLES
    \* ---- Parallelizer
    ppc,          \* position of the caller of Parallelizer
    parallelize,  \* self._parallelize
    processes,    \* self._processes (an option)
    f,            \* the function handed to __call__: task -> result or Raises
    tasks,        \* the task list handed to __call__
    pool,         \* "none" | "run" | "terminated"
    workers,      \* the worker processes alive
    wchunk,       \* worker -> the chunk it holds (-1: idle)
    taskq,        \* chunks not yet taken by a worker (FIFO)
    outq,         \* chunk results not yet handled (FIFO)
    mapres,       \* the MapResult of p.map: value, success, number_left
    ret,          \* what __call__ returned: kind "none" | "list" | "map"
    exc,          \* exception pending in / raised by __call__ (an option)
    iter,         \* the lazy map object: position, state, items yielded
    applied,      \* log: <<context, task index>> for every call of f
    spawned,      \* number of worker processes ever started
    \* ---- save_df_as_csv
    callers,      \* the callers of save_df_as_csv
    fs,           \* the filesystem: path -> node
    spc,          \* caller -> position in save_df_as_csv
    sargs,        \* caller -> [df, path, comment, kwargs]
    mkres,        \* caller -> what create_dir returned (an option)
    tmpname,      \* caller -> name of atomic_write's temporary file (option)
    sret,         \* caller -> what save_df_as_csv returned (an option)
    committed,    \* caller -> the temporary file was renamed into place
    before,       \* caller -> the filesystem when the call started
    \* ---- two runs of a Parallelizer, create_dir, Singleton
    first,        \* the outcome of an earlier run over the same f and tasks
    dcalls,       \* log of the create_dir calls: path, result, fs around it
    instances,    \* Singleton._instances: class -> instance
    created,      \* every instance ever constructed
    icalls        \* log of the instantiations: class, arguments, outcome

pvars == <<ppc, parallelize, processes, f, tasks, pool, workers, wchunk,
           taskq, outq, mapres, ret, exc, iter, applied, spawned>>
svars == <<callers, fs, spc, sargs, mkres, tmpname, sret, committed, before>>
ovars == <<first, dcalls, instances, created, icalls>>
vars == <<pvars, svars, ovars>>

\* No earlier run.
NoFirst == [done |-> FALSE, parallelize |-> FALSE, usable |-> FALSE,
            raised |-> FALSE, delivered |-> <<>>]

\* The state of the remaining variables while they are not explored.
OtherIdle ==
    /\ first = NoFirst
    /\ dcalls = <<>>
    /\ instances = <<>>
    /\ created = {}
    /\ icalls = <<>>

\* =========================================================== Parallelizer

\* A Pool that clamps its worker count to at least 1.
NumWorkersClamped(p) ==
    IF p = NoneV THEN (IF CpuCount >= 1 THEN CpuCount ELSE 1)
    ELSE IF p[1] < 1 THEN 1 ELSE p[1]

\* Pool.__init__: processes None means os.cpu_count() or 1.
NumWorkers(p) == IF p = NoneV THEN (IF CpuCount >= 1 THEN CpuCount ELSE 1)
                 ELSE p[1]

\* Pool._map_async: divmod(len(iterable), len(self._pool) * 4), rounded up;
\* 0 for an empty iterable.
ChunkSize(n, poolsize) ==
    IF n = 0 THEN 0
    ELSE LET q == n \div (poolsize * 4)
             r == n % (poolsize * 4)
         IN  IF r # 0 THEN q + 1 ELSE q

\* MapResult.__init__: length//chunksize + bool(length % chunksize).
NumChunks(n, cs) ==
    IF cs <= 0 THEN 0 ELSE (n \div cs) + (IF n % cs # 0 THEN 1 ELSE 0)

\* Pool._get_tasks: the task indices (1-based) of chunk k (0-based).
ChunkIdx(k, cs, n) ==
    LET lo == k * cs + 1
        hi == IF (k + 1) * cs < n THEN (k + 1) * cs ELSE n
    IN  [j \in 1..(hi - lo + 1) |-> lo + j - 1]

\* The first position of idx whose task makes f raise, 0 if none.
FirstRaise(idx) ==
    LET bad == {j \in 1..Len(idx) : f[tasks[idx[j]]] = Raises}
    IN  IF bad = {} THEN 0 ELSE CHOOSE j \in bad : \A k \in bad : j <= k

\* The calls of f that mapstar (list(map(f, chunk))) makes on idx, by ctx.
CallsOf(ctx, idx) ==
    LET r == FirstRaise(idx)
        m == IF r = 0 THEN Len(idx) ELSE r
    IN  [j \in 1..m |-> <<ctx, idx[j]>>]

\* worker(): (True, list(map(f, chunk))) or (False, the exception).
ChunkResult(k, idx) ==
    LET r == FirstRaise(idx)
    IN  IF r = 0
        THEN [chunk |-> k, success |-> TRUE,
              value |-> [j \in 1..Len(idx) |-> f[tasks[idx[j]]]]]
        ELSE [chunk |-> k, success |-> FALSE,
              value |-> ExcOf(idx[r])]

NoRet == [kind |-> "none", val |-> <<>>]
NoMapRes == [value |-> <<>>, success |-> TRUE, left |-> 0, cs |-> 0]
NoIter == [pos |-> 0, state |-> "none", items |-> <<>>]

\* Parallelizer.__init__(parallelize, processes): stores both arguments.
Construct(par, procs) ==
    /\ ppc = "new"
    /\ parallelize' = par
    /\ processes' = procs
    /\ ppc' = "ready"
    /\ UNCHANGED <<f, tasks, pool, workers, wchunk, taskq, outq, mapres,
                   ret, exc, iter, applied, spawned>>
    /\ UNCHANGED <<svars, ovars>>

\* A __call__ that returns [] for no tasks before it creates the pool.
CallParallelSkipEmpty ==
    /\ ppc = "ready"
    /\ parallelize
    /\ IF tasks = <<>>
       THEN /\ ret' = [kind |-> "list", val |-> <<>>]
            /\ ppc' = "returned"
            /\ UNCHANGED <<pool, workers, wchunk, spawned, exc>>
       ELSE IF NumWorkers(processes) < 1
       THEN /\ exc' = Some(ValueError)
            /\ ppc' = "raised"
            /\ UNCHANGED <<pool, workers, wchunk, spawned, ret>>
       ELSE /\ pool' = "run"
            /\ workers' = 1..NumWorkers(processes)
            /\ wchunk' = [w \in 1..NumWorkers(processes) |-> -1]
            /\ spawned' = spawned + NumWorkers(processes)
            /\ ppc' = "pool"
            /\ UNCHANGED <<exc, ret>>
    /\ UNCHANGED <<parallelize, processes, f, tasks, taskq, outq, mapres,
                   iter, applied>>
    /\ UNCHANGED <<svars, ovars>>

\* __call__ with self._parallelize true: Pool(self._processes).  Pool raises
\* ValueError for a count below 1 before it starts any worker.
CallParallel ==
    /\ ppc = "ready"
    /\ parallelize
    /\ IF NumWorkers(processes) < 1
       THEN /\ exc' = Some(ValueError)
            /\ ppc' = "raised"
            /\ UNCHANGED <<pool, workers, wchunk, spawned>>
       ELSE /\ pool' = "run"
            /\ workers' = 1..NumWorkers(processes)
            /\ wchunk' = [w \in 1..NumWorkers(processes) |-> -1]
            /\ spawned' = spawned + NumWorkers(processes)
            /\ ppc' = "pool"
            /\ UNCHANGED exc
    /\ UNCHANGED <<parallelize, processes, f, tasks, taskq, outq, mapres,
                   ret, iter, applied>>
    /\ UNCHANGED <<svars, ovars>>

\* p.map(f, tasks), submission half: the tasks are cut into chunks that are
\* queued in order; the MapResult starts with [None] * length.
MapAsync ==
    /\ ppc = "pool"
    /\ LET n == Len(tasks)
           cs == ChunkSize(n, Cardinality(workers))
           nc == NumChunks(n, cs)
       IN  /\ taskq' = [k \in 1..nc |-> k - 1]
           /\ mapres' = [value |-> [i \in 1..n |-> "None"], success |-> TRUE,
                         left |-> nc, cs |-> cs]
    /\ ppc' = "wait"
    /\ UNCHANGED <<parallelize, processes, f, tasks, pool, workers, wchunk,
                   outq, ret, exc, iter, applied, spawned>>
    /\ UNCHANGED <<svars, ovars>>

\* A worker process takes the next chunk from the task queue.
WorkerGet(w) ==
    /\ pool = "run"
    /\ w \in workers
    /\ wchunk[w] = -1
    /\ taskq # <<>>
    /\ wchunk' = [wchunk EXCEPT ![w] = Head(taskq)]
    /\ taskq' = Tail(taskq)
    /\ UNCHANGED <<ppc, parallelize, processes, f, tasks, pool, workers,
                   outq, mapres, ret, exc, iter, applied, spawned>>
    /\ UNCHANGED <<svars, ovars>>

\* The worker applies f to its chunk and queues (success, result).
WorkerRun(w) ==
    /\ pool = "run"
    /\ w \in workers
    /\ wchunk[w] # -1
    /\ LET idx == ChunkIdx(wchunk[w], mapres.cs, Len(tasks))
       IN  /\ applied' = applied \o CallsOf(w, idx)
           /\ outq' = Append(outq, ChunkResult(wchunk[w], idx))
    /\ wchunk' = [wchunk EXCEPT ![w] = -1]
    /\ UNCHANGED <<ppc, parallelize, processes, f, tasks, pool, workers,
                   taskq, mapres, ret, exc, iter, spawned>>
    /\ UNCHANGED <<svars, ovars>>

\* A slice assignment that fills the first free slots, in completion order.
SetSliceByCompletion(value, k, cs, res) ==
    LET free == {i \in 1..Len(value) : value[i] = "None"}
        lo == IF free = {} THEN Len(value) + 1
              ELSE CHOOSE i \in free : \A j \in free : i <= j
    IN  [i \in 1..Len(value) |->
            IF i >= lo /\ i < lo + Len(res) THEN res[i - lo + 1]
            ELSE value[i]]

\* MapResult._set(i, (success, result)): a good chunk is stored at its own
\* slice; the first failure replaces the value by the exception; the result
\* is ready only when no chunk is left.
SetSlice(value, k, cs, res) ==
    [i \in 1..Len(value) |->
        IF i > k * cs /\ i <= k * cs + Len(res) THEN res[i - k * cs]
        ELSE value[i]]

\* A _set that counts a failed chunk as done and keeps no exception.
MapSetDropFailure(mr, r) ==
    IF r.success
    THEN [mr EXCEPT !.left = mr.left - 1,
                    !.value = SetSlice(mr.value, r.chunk, mr.cs, r.value)]
    ELSE [mr EXCEPT !.left = mr.left - 1]

MapSet(mr, r) ==
    IF r.success /\ mr.success
    THEN [mr EXCEPT !.left = mr.left - 1,
                    !.value = SetSlice(mr.value, r.chunk, mr.cs, r.value)]
    ELSE IF ~r.success /\ mr.success
         THEN [mr EXCEPT !.left = mr.left - 1, !.success = FALSE,
                         !.value = r.value]
         ELSE [mr EXCEPT !.left = mr.left - 1]

\* The pool's result handler takes the next chunk result.
HandleResult ==
    /\ pool = "run"
    /\ outq # <<>>
    /\ mapres' = MapSet(mapres, Head(outq))
    /\ outq' = Tail(outq)
    /\ UNCHANGED <<ppc, parallelize, processes, f, tasks, pool, workers,
                   wchunk, taskq, ret, exc, iter, applied, spawned>>
    /\ UNCHANGED <<svars, ovars>>

\* p.map, waiting half (ApplyResult.get): once the result is ready, the list
\* is the value of the return statement, or the stored exception is raised.
MapGet ==
    /\ ppc = "wait"
    /\ mapres.left = 0
    /\ IF mapres.success
       THEN /\ ret' = [kind |-> "list", val |-> mapres.value]
            /\ UNCHANGED exc
       ELSE /\ exc' = Some(mapres.value)
            /\ UNCHANGED ret
    /\ ppc' = "exit"
    /\ UNCHANGED <<parallelize, processes, f, tasks, pool, workers, wchunk,
                   taskq, outq, mapres, iter, applied, spawned>>
    /\ UNCHANGED <<svars, ovars>>

\* Leaving the pool without terminate(): the workers stay alive.
PoolExitNoTerminate ==
    /\ ppc = "exit"
    /\ ppc' = IF exc = NoneV THEN "returned" ELSE "raised"
    /\ UNCHANGED <<parallelize, processes, f, tasks, pool, workers, wchunk,
                   taskq, outq, mapres, ret, exc, iter, applied, spawned>>
    /\ UNCHANGED <<svars, ovars>>

\* Leaving `with Pool(...) as p`: Pool.__exit__ calls terminate(), which
\* stops and joins every worker; then the value is returned or the exception
\* propagates to the caller.
PoolExit ==
    /\ ppc = "exit"
    /\ pool' = "terminated"
    /\ workers' = {}
    /\ ppc' = IF exc = NoneV THEN "returned" ELSE "raised"
    /\ UNCHANGED <<parallelize, processes, f, tasks, wchunk, taskq, outq,
                   mapres, ret, exc, iter, applied, spawned>>
    /\ UNCHANGED <<svars, ovars>>

\* __call__ with self._parallelize false: return map(f, tasks), a lazy
\* iterator; f has not been called when the call returns.
CallSequential ==
    /\ ppc = "ready"
    /\ ~parallelize
    /\ ret' = [kind |-> "map", val |-> <<>>]
    /\ iter' = [pos |-> 0, state |-> "active", items |-> <<>>]
    /\ ppc' = "returned"
    /\ UNCHANGED <<parallelize, processes, f, tasks, pool, workers, wchunk,
                   taskq, outq, mapres, exc, applied, spawned>>
    /\ UNCHANGED <<svars, ovars>>

\* A map object that walks the tasks from the last to the first.
IterNextFromEnd ==
    /\ ppc = "returned"
    /\ ret.kind = "map"
    /\ iter.state = "active"
    /\ IF iter.pos = Len(tasks)
       THEN /\ iter' = [iter EXCEPT !.state = "exhausted"]
            /\ UNCHANGED applied
       ELSE LET i == Len(tasks) - iter.pos
            IN  /\ applied' = Append(applied, <<0, i>>)
                /\ IF f[tasks[i]] = Raises
                   THEN iter' = [iter EXCEPT !.state = "raised",
                                             !.pos = iter.pos + 1]
                   ELSE iter' = [iter EXCEPT !.pos = iter.pos + 1,
                                   !.items = Append(iter.items, f[tasks[i]])]
    /\ UNCHANGED <<ppc, parallelize, processes, f, tasks, pool, workers,
                   wchunk, taskq, outq, mapres, ret, exc, spawned>>
    /\ UNCHANGED <<svars, ovars>>

\* The caller takes the next item of the returned map object: f is applied
\* to the next task in the caller's context; the item is yielded, or f's
\* exception comes out of the iteration, or the iterator is exhausted.
IterNext ==
    /\ ppc = "returned"
    /\ ret.kind = "map"
    /\ iter.state = "active"
    /\ IF iter.pos = Len(tasks)
       THEN /\ iter' = [iter EXCEPT !.state = "exhausted"]
            /\ UNCHANGED applied
       ELSE /\ applied' = Append(applied, <<0, iter.pos + 1>>)
            /\ IF f[tasks[iter.pos + 1]] = Raises
               THEN iter' = [iter EXCEPT !.state = "raised",
                                         !.pos = iter.pos + 1]
               ELSE iter' = [iter EXCEPT !.pos = iter.pos + 1,
                               !.items = Append(iter.items,
                                                f[tasks[iter.pos + 1]])]
    /\ UNCHANGED <<ppc, parallelize, processes, f, tasks, pool, workers,
                   wchunk, taskq, outq, mapres, ret, exc, spawned>>
    /\ UNCHANGED <<svars, ovars>>

\* The state of the save_df_as_csv half while the Parallelizer is explored.
SaveIdle ==
    /\ callers = {}
    /\ fs = <<>>
    /\ spc = <<>>
    /\ sargs = <<>>
    /\ mkres = <<>>
    /\ tmpname = <<>>
    /\ sret = <<>>
    /\ committed = <<>>
    /\ before = <<>>

\* A Parallelizer about to be constructed, with the f and the tasks it will
\* be called with.
InitPar ==
    /\ ppc = "new"
    /\ parallelize = FALSE
    /\ processes = NoneV
    /\ f \in FChoices
    /\ tasks \in TaskSeqs
    /\ pool = "none"
    /\ workers = {}
    /\ wchunk = <<>>
    /\ taskq = <<>>
    /\ outq = <<>>
    /\ mapres = NoMapRes
    /\ ret = NoRet
    /\ exc = NoneV
    /\ iter = NoIter
    /\ applied = <<>>
    /\ spawned = 0
    /\ SaveIdle
    /\ OtherIdle

NextPar ==
    \/ \E par \in BOOLEAN, procs \in ProcChoices : Construct(par, procs)
    \/ CallParallel
    \/ MapAsync
    \/ \E w \in workers : WorkerGet(w)
    \/ \E w \in workers : WorkerRun(w)
    \/ HandleResult
    \/ MapGet
    \/ PoolExit
    \/ CallSequential
    \/ IterNext

SpecPar == InitPar /\ [][NextPar]_vars

Expected == [i \in 1..Len(tasks) |-> f[tasks[i]]]
AllIdx == [i \in 1..Len(tasks) |-> i]
AnyRaise == FirstRaise(AllIdx) # 0
PoolUsable == parallelize => NumWorkers(processes) >= 1

\* The result handed to the caller so far: the list p.map returned, or the
\* items the map object has yielded.
Delivered == IF ret.kind = "list" THEN ret.val
             ELSE IF ret.kind = "map" THEN iter.items ELSE <<>>

\* The run is over: the call returned or raised, and a returned map object
\* has been consumed to its end or to f's exception.
Finished == /\ ppc \in {"returned", "raised"}
            /\ ret.kind = "map" => iter.state \in {"exhausted", "raised"}

\* After a finished parallel run its outcome is kept and a second
\* Parallelizer is to be constructed and called with the same f and the
\* same tasks.
Rerun ==
    /\ Finished
    /\ parallelize
    /\ ~first.done
    /\ first' = [done |-> TRUE, parallelize |-> parallelize,
                 usable |-> PoolUsable,
                 raised |-> (ppc = "raised" \/ iter.state = "raised"),
                 delivered |-> Delivered]
    /\ ppc' = "new"
    /\ parallelize' = FALSE
    /\ processes' = NoneV
    /\ pool' = "none"
    /\ workers' = {}
    /\ wchunk' = <<>>
    /\ taskq' = <<>>
    /\ outq' = <<>>
    /\ mapres' = NoMapRes
    /\ ret' = NoRet
    /\ exc' = NoneV
    /\ iter' = NoIter
    /\ applied' = <<>>
    /\ spawned' = 0
    /\ UNCHANGED <<f, tasks, dcalls, instances, created, icalls>>
    /\ UNCHANGED svars

\* Two runs over the same f and tasks, the second in the other mode.
NextBoth ==
    \/ \E par \in BOOLEAN, procs \in ProcChoices :
          /\ first.done => par # first.parallelize
          /\ Construct(par, procs)
    \/ CallParallel
    \/ MapAsync
    \/ \E w \in workers : WorkerGet(w)
    \/ \E w \in workers : WorkerRun(w)
    \/ HandleResult
    \/ MapGet
    \/ PoolExit
    \/ CallSequential
    \/ IterNext
    \/ Rerun

SpecBoth == InitPar /\ [][NextBoth]_vars

\* ================================================= claims on Parallelizer

AppliedIdx == {applied[k][2] : k \in 1..Len(applied)}

\* C1: the result of __call__ has one element per task and element i is f
\* applied to tasks[i], in both modes and whatever order the workers finish
\* in: the list returned by the parallel call is exactly that, every item the
\* sequential map object yields is the next element of it, and an exhausted
\* map object has yielded all of it.
OrderPreserved ==
    /\ (ppc = "returned" /\ ret.kind = "list") => ret.val = Expected
    /\ ret.kind = "map" =>
          /\ Len(iter.items) <= Len(tasks)
          /\ iter.items = SubSeq(Expected, 1, Len(iter.items))
          /\ iter.state = "exhausted" => iter.items = Expected

\* A parallel run has returned its list although two chunks with different
\* results were completed in the reverse of their input order.
OrderPreservedWitness ==
    /\ ppc = "returned"
    /\ ret.kind = "list"
    /\ \E p, q \in 1..Len(applied) :
          /\ p < q
          /\ applied[p][2] > applied[q][2]
          /\ ret.val[applied[p][2]] # ret.val[applied[q][2]]

\* C3 as stated: when the run is over, as many results as tasks have been
\* delivered, also when f fails on some task.
ResultCountAlwaysMatches ==
    (Finished /\ PoolUsable) => Len(Delivered) = Len(tasks)

\* C3 amended: with a usable pool, the number of results equals the number
\* of tasks when f fails on no task; when f fails on some task no error
\* entry is made: the parallel call applies f to every chunk, then raises
\* the first exception recorded and returns nothing, and the sequential map
\* object yields the results before the first failing task and then raises.
ResultCountUnlessFailure ==
    /\ \A i \in 1..Len(Delivered) : Delivered[i] \in ResVals
    /\ (Finished /\ PoolUsable) =>
          IF ~AnyRaise THEN /\ ppc = "returned"
                            /\ Len(Delivered) = Len(tasks)
          ELSE IF parallelize
               THEN /\ ppc = "raised"
                    /\ ret = NoRet
                    /\ \E i \in 1..Len(tasks) :
                          f[tasks[i]] = Raises /\ exc = Some(ExcOf(i))
                    /\ mapres.left = 0
               ELSE /\ iter.state = "raised"
                    /\ Len(iter.items) = FirstRaise(AllIdx) - 1

\* A parallel run over several tasks has raised f's exception although f
\* succeeded on another task.
ResultCountWitness ==
    /\ ppc = "raised"
    /\ parallelize
    /\ exc # Some(ValueError)
    /\ \E i \in 1..Len(tasks) : f[tasks[i]] # Raises /\ i \in AppliedIdx

\* C4: worker processes exist only in parallel mode and none outlives the
\* call: before the call and after it has returned or raised no worker is
\* alive, and a pool that was created is terminated by then.
NoWorkerOutlivesCall ==
    /\ (workers # {} \/ spawned > 0 \/ pool # "none") => parallelize
    /\ ppc \in {"new", "ready", "returned", "raised"} => workers = {}
    /\ (ppc \in {"returned", "raised"} /\ spawned > 0) => pool = "terminated"
    /\ pool = "run" => Cardinality(workers) = spawned

\* The call has raised f's exception out of a pool with started workers.
NoWorkerOutlivesCallWitness ==
    /\ ppc = "raised"
    /\ exc # NoneV
    /\ exc # Some(ValueError)
    /\ spawned > 0
    /\ pool = "terminated"

\* C5: the call is blocking in both modes: when it has returned, f has been
\* applied to every task; a sequential run applies f in the caller's context
\* in input order.
CallIsBlocking ==
    /\ ppc = "returned" => AppliedIdx = 1..Len(tasks)
    /\ ~parallelize => \A k \in 1..Len(applied) : applied[k] = <<0, k>>

\* C6 as stated: a call with no tasks returns an empty result and no pool or
\* worker was ever created, in both modes.
EmptyRunSpawnsNothing ==
    (tasks = <<>> /\ ppc = "returned") =>
        /\ Delivered = <<>>
        /\ spawned = 0
        /\ pool = "none"

\* C6 amended: a call with no tasks returns an empty result and applies f to
\* nothing; in sequential mode no pool or worker is created; in parallel
\* mode the pool and its workers are created all the same (or ValueError is
\* raised for a count below 1) and are torn down before the call returns.
EmptyRun ==
    (tasks = <<>> /\ ppc \in {"returned", "raised"}) =>
        /\ applied = <<>>
        /\ IF ~parallelize
           THEN /\ ppc = "returned" /\ ret.kind = "map" /\ iter.items = <<>>
                /\ spawned = 0 /\ pool = "none"
           ELSE IF NumWorkers(processes) < 1
           THEN ppc = "raised" /\ exc = Some(ValueError) /\ spawned = 0
           ELSE /\ ppc = "returned"
                /\ ret = [kind |-> "list", val |-> <<>>]
                /\ spawned = NumWorkers(processes)
                /\ pool = "terminated"
                /\ workers = {}

\* A parallel call with no tasks has returned after starting workers.
EmptyRunWitness ==
    /\ tasks = <<>>
    /\ ppc = "returned"
    /\ parallelize
    /\ spawned > 0
    /\ ret = [kind |-> "list", val |-> <<>>]

\* C7 as stated: construction never raises and a parallel call never fails
\* on the worker count: at least one worker is started whatever the count.
WorkerCountClamped ==
    /\ ppc = "ready" => exc = NoneV
    /\ (parallelize /\ ppc \notin {"new", "ready"}) =>
          exc # Some(ValueError) /\ spawned >= 1

\* C7 amended: construction never raises and keeps the count as given; a
\* missing count makes the pool start os.cpu_count() (at least 1) workers and
\* a count of at least 1 that many, but a count of 0 or less is not clamped:
\* the parallel call raises ValueError at pool creation, starting no worker.
WorkerCountNotClamped ==
    /\ ppc = "ready" => exc = NoneV /\ processes \in ProcChoices
    /\ (parallelize /\ ppc \notin {"new", "ready"}) =>
          IF processes = NoneV
          THEN spawned = CpuCount /\ spawned >= 1 /\ exc # Some(ValueError)
          ELSE IF processes[1] >= 1
          THEN spawned = processes[1] /\ exc # Some(ValueError)
          ELSE /\ ppc = "raised"
               /\ exc = Some(ValueError)
               /\ spawned = 0
               /\ pool = "none"

\* A parallel call on a Parallelizer built with count 0 has raised.
WorkerCountWitness ==
    /\ processes = Some(0)
    /\ parallelize
    /\ ppc = "raised"
    /\ exc = Some(ValueError)

\* ========================================================= save_df_as_csv

Filename == "out.csv"                  \* the filename argument
PathChoices == {<<"a">>, <<"a", "b">>} \* the path argument: a, a/b
CommentChoices == {<<>>, <<"# note">>} \* the comment argument, as lines
EmptyStr == <<>>                       \* the empty string ""

\* The **kwargs handed on to to_csv: none, header=False (no header row), or
\* na_rep=..., which collides with the na_rep the call already passes.
KwargChoices == {"none", "header=False", "na_rep"}
NaN == "NaN"                           \* a missing cell
RowChoices == {<<"x", NaN>>, <<NaN, "y">>}
Digits == <<"0", "1", "2", "3", "4", "5", "6", "7", "8", "9">>

\* The df argument: something that is not a DataFrame, or a DataFrame of
\* 0..MaxRows rows over the columns c1, c2.
DfChoices ==
    {[isdf |-> FALSE, rows |-> <<>>]} \cup
    {[isdf |-> TRUE, rows |-> r] :
        r \in UNION {[1..n -> RowChoices] : n \in 0..MaxRows}}

DirNode == [type |-> "dir", content |-> <<>>]
FileNode(content) == [type |-> "file", content |-> content]
Absent == [type |-> "absent", content |-> <<>>]
OldFile == FileNode(<<<<"old">>>>)

NodeAt(fsys, p) == IF p \in DOMAIN fsys THEN fsys[p] ELSE Absent
Exists(fsys, p) == p = <<>> \/ p \in DOMAIN fsys
IsDir(fsys, p) == p = <<>> \/ (p \in DOMAIN fsys /\ fsys[p].type = "dir")
IsFile(fsys, p) == p \in DOMAIN fsys /\ fsys[p].type = "file"
PutNode(fsys, p, node) ==
    [q \in DOMAIN fsys \cup {p} |-> IF q = p THEN node ELSE fsys[q]]
DelNode(fsys, p) == [q \in DOMAIN fsys \ {p} |-> fsys[q]]
Files(fsys) == [q \in {x \in DOMAIN fsys : fsys[x].type = "file"} |-> fsys[q]]

\* The filesystems a call can start from: nothing there, the directories
\* there, an older destination file there, a regular file in the way.
InitFS ==
    { <<>>,
      (<<"a">> :> DirNode),
      (<<"a">> :> DirNode) @@ (<<"a", "b">> :> DirNode),
      (<<"a">> :> DirNode) @@ (<<"a", Filename>> :> OldFile),
      (<<"a">> :> DirNode) @@ (<<"a", "b">> :> DirNode)
          @@ (<<"a", "b", Filename>> :> OldFile),
      (<<"a">> :> OldFile),
      (<<"a">> :> DirNode) @@ (<<"a", "b">> :> OldFile) }

\* os.makedirs creating the first k components of path that are missing.
MkdirsUpTo(fsys, path, k) ==
    [q \in DOMAIN fsys \cup {SubSeq(path, 1, j) : j \in 1..k} |->
        IF q \in DOMAIN fsys THEN fsys[q] ELSE DirNode]

\* os.makedirs without exist_ok: it raises also when path is there already.
MakedirsNoExistOk(fsys, path) ==
    LET n == Len(path)
        fileAt == {k \in 1..n : IsFile(fsys, SubSeq(path, 1, k))}
        clearTo(k) == \A j \in 1..k : j \notin fileAt
    IN  (IF fileAt = {} /\ ~Exists(fsys, path)
         THEN {[fs |-> MkdirsUpTo(fsys, path, n), raised |-> FALSE]}
         ELSE {[fs |-> fsys, raised |-> TRUE]})
        \cup
        {[fs |-> MkdirsUpTo(fsys, path, j - 1), raised |-> TRUE] :
            j \in {k \in 1..n : /\ ~Exists(fsys, SubSeq(path, 1, k))
                                /\ clearTo(k)}}

\* os.makedirs(path, exist_ok=True): every missing component is created; it
\* raises when a component is a regular file, or when the mkdir of a missing
\* component is refused (permission denied), the components above it made.
MakedirsOutcomes(fsys, path) ==
    LET n == Len(path)
        fileAt == {k \in 1..n : IsFile(fsys, SubSeq(path, 1, k))}
        clearTo(k) == \A j \in 1..k : j \notin fileAt
    IN  (IF fileAt = {}
         THEN {[fs |-> MkdirsUpTo(fsys, path, n), raised |-> FALSE]}
         ELSE {[fs |-> fsys, raised |-> TRUE]})
        \cup
        {[fs |-> MkdirsUpTo(fsys, path, j - 1), raised |-> TRUE] :
            j \in {k \in 1..n : /\ ~Exists(fsys, SubSeq(path, 1, k))
                                /\ clearTo(k)}}

\* A create_dir whose except clause falls through to the exists test.
CreateDirExistsOnly(fsys, path) ==
    {[fs |-> o.fs, ok |-> Exists(o.fs, path)] :
        o \in MakedirsOutcomes(fsys, path)}

\* create_dir(path): False when makedirs raised, else os.path.exists(path).
CreateDirOutcomes(fsys, path) ==
    {[fs |-> o.fs, ok |-> (~o.raised) /\ Exists(o.fs, path)] :
        o \in MakedirsOutcomes(fsys, path)}

\* os.path.join(path, filename)
Join(path, name) == Append(path, name)
Dest(c) == Join(sargs[c].path, Filename)
TmpName(c) == IF c = 1 THEN "tmp1" ELSE "tmp2"

\* A writer that opens and writes the destination itself.
TmpPathIsDest(c) == Join(sargs[c].path, Filename)

\* The temporary file: a fresh name in the directory of the destination.
TmpPath(c) == Join(sargs[c].path, TmpName(c))

\* s: the provenance line, the timestamp line, then the caller's comment.
HeaderText(comment) ==
    << <<"# Generated by lineage v{version}, https://github.com/apriha/lineage">>,
       <<"# Generated at {utcnow} UTC">> >> \o [i \in 1..Len(comment) |-> <<comment[i]>>]

\* A to_csv that is not given na_rep: a missing cell comes out empty.
NaRepEmpty(cell) == IF cell = NaN THEN "" ELSE cell

\* df.to_csv(f, na_rep="--"): the header row (index label, column names),
\* then one line per row: the index and the cells, a missing cell as "--".
NaRep(cell) == IF cell = NaN THEN "--" ELSE cell
ToCsvLines(df, kw) ==
    (IF kw = "header=False" THEN <<>> ELSE << <<"", "c1", "c2">> >>) \o
    [i \in 1..Len(df.rows) |->
        <<Digits[i]>> \o [j \in 1..Len(df.rows[i]) |-> NaRep(df.rows[i][j])]]

FullContent(c) ==
    HeaderText(sargs[c].comment) \o ToCsvLines(sargs[c].df, sargs[c].kwargs)

\* return <value>
Return(c, value) ==
    /\ sret' = [sret EXCEPT ![c] = value]
    /\ spc' = [spc EXCEPT ![c] = "done"]

\* An except clause that lets the exception go on to the caller.
CatchReraise(c) ==
    /\ spc' = [spc EXCEPT ![c] = "raised"]
    /\ UNCHANGED sret

\* An except clause that reports the failure by a value of its own.
CatchReturnNone(c) == Return(c, <<"None">>)

\* except Exception as err: print(err); return ""
Catch(c) == Return(c, EmptyStr)

\* A rollback that leaves the temporary file behind.
RollbackKeepTemp(fsys, c) == fsys

\* AtomicWriter.rollback: unlink the temporary file, if one was created.
Rollback(fsys, c) ==
    IF tmpname[c] # NoneV THEN DelNode(fsys, TmpPath(c)) ELSE fsys

\* A guard that lets a DataFrame of no rows through.
SaveCheckNoLen(c) ==
    /\ c \in callers
    /\ spc[c] = "call"
    /\ before' = [before EXCEPT ![c] = fs]
    /\ IF sargs[c].df.isdf
       THEN spc' = [spc EXCEPT ![c] = "mkdir"] /\ UNCHANGED sret
       ELSE Return(c, EmptyStr)
    /\ UNCHANGED <<callers, fs, sargs, mkres, tmpname, committed>>
    /\ UNCHANGED <<pvars, ovars>>

\* if isinstance(df, pd.DataFrame) and len(df) > 0: ... else: print("no data
\* to save..."); return ""
SaveCheck(c) ==
    /\ c \in callers
    /\ spc[c] = "call"
    /\ before' = [before EXCEPT ![c] = fs]
    /\ IF sargs[c].df.isdf /\ Len(sargs[c].df.rows) > 0
       THEN spc' = [spc EXCEPT ![c] = "mkdir"] /\ UNCHANGED sret
       ELSE Return(c, EmptyStr)
    /\ UNCHANGED <<callers, fs, sargs, mkres, tmpname, committed>>
    /\ UNCHANGED <<pvars, ovars>>

\* A save that goes on whatever create_dir returned.
SaveCreateDirIgnoreResult(c) ==
    /\ c \in callers
    /\ spc[c] = "mkdir"
    /\ \E o \in CreateDirOutcomes(fs, sargs[c].path) :
          /\ fs' = o.fs
          /\ mkres' = [mkres EXCEPT ![c] = Some(o.ok)]
          /\ spc' = [spc EXCEPT ![c] = "print"]
          /\ UNCHANGED sret
    /\ UNCHANGED <<callers, sargs, tmpname, committed, before>>
    /\ UNCHANGED <<pvars, ovars>>

\* if not create_dir(path): return ""
SaveCreateDir(c) ==
    /\ c \in callers
    /\ spc[c] = "mkdir"
    /\ \E o \in CreateDirOutcomes(fs, sargs[c].path) :
          /\ fs' = o.fs
          /\ mkres' = [mkres EXCEPT ![c] = Some(o.ok)]
          /\ IF o.ok
             THEN spc' = [spc EXCEPT ![c] = "print"] /\ UNCHANGED sret
             ELSE Return(c, EmptyStr)
    /\ UNCHANGED <<callers, sargs, tmpname, committed, before>>
    /\ UNCHANGED <<pvars, ovars>>

\* destination = os.path.join(path, filename); print("Saving " + relpath);
\* s = ... (the header text is built)
SavePrint(c) ==
    /\ c \in callers
    /\ spc[c] = "print"
    /\ spc' = [spc EXCEPT ![c] = "open"]
    /\ UNCHANGED <<callers, fs, sargs, mkres, tmpname, sret, committed,
                   before>>
    /\ UNCHANGED <<pvars, ovars>>

\* with atomic_write(destination, mode="w", overwrite=True) as f: a fresh,
\* empty temporary file is created in the directory of the destination.
SaveOpen(c) ==
    /\ c \in callers
    /\ spc[c] = "open"
    /\ IsDir(fs, sargs[c].path)
    /\ fs' = PutNode(fs, TmpPath(c), FileNode(<<>>))
    /\ tmpname' = [tmpname EXCEPT ![c] = Some(TmpName(c))]
    /\ spc' = [spc EXCEPT ![c] = "write"]
    /\ UNCHANGED <<callers, sargs, mkres, sret, committed, before>>
    /\ UNCHANGED <<pvars, ovars>>

\* f.write(s)
SaveWrite(c) ==
    /\ c \in callers
    /\ spc[c] = "write"
    /\ fs' = PutNode(fs, TmpPath(c),
                     FileNode(fs[TmpPath(c)].content
                              \o HeaderText(sargs[c].comment)))
    /\ spc' = [spc EXCEPT ![c] = "to_csv"]
    /\ UNCHANGED <<callers, sargs, mkres, tmpname, sret, committed, before>>
    /\ UNCHANGED <<pvars, ovars>>

\* df.to_csv(f, na_rep="--", **kwargs), one line at a time; with na_rep
\* among the kwargs the call itself raises TypeError (see SaveFail).
SaveToCsv(c) ==
    /\ c \in callers
    /\ spc[c] = "to_csv"
    /\ sargs[c].kwargs # "na_rep"
    /\ LET lines == ToCsvLines(sargs[c].df, sargs[c].kwargs)
           done == Len(fs[TmpPath(c)].content)
                   - Len(HeaderText(sargs[c].comment))
       IN  /\ fs' = PutNode(fs, TmpPath(c),
                            FileNode(Append(fs[TmpPath(c)].content,
                                            lines[done + 1])))
           /\ spc' = [spc EXCEPT ![c] =
                        IF done + 1 = Len(lines) THEN "sync" ELSE "to_csv"]
    /\ UNCHANGED <<callers, sargs, mkres, tmpname, sret, committed, before>>
    /\ UNCHANGED <<pvars, ovars>>

\* Leaving the with block, first half: the temporary file is flushed,
\* fsynced and closed.
SaveSync(c) ==
    /\ c \in callers
    /\ spc[c] = "sync"
    /\ spc' = [spc EXCEPT ![c] = "commit"]
    /\ UNCHANGED <<callers, fs, sargs, mkres, tmpname, sret, committed,
                   before>>
    /\ UNCHANGED <<pvars, ovars>>

\* Leaving the with block, second half: AtomicWriter.commit renames the
\* temporary file over the destination; then return destination.
SaveCommit(c) ==
    /\ c \in callers
    /\ spc[c] = "commit"
    /\ fs' = DelNode(PutNode(fs, Dest(c), fs[TmpPath(c)]), TmpPath(c))
    /\ committed' = [committed EXCEPT ![c] = TRUE]
    /\ Return(c, Dest(c))
    /\ UNCHANGED <<callers, sargs, mkres, tmpname, before>>
    /\ UNCHANGED <<pvars, ovars>>

\* Any statement of the try block after create_dir raises (relpath, creating
\* the temporary file, a write, to_csv, the sync, the rename): atomic_write
\* rolls back, and the except clause returns "".
SaveFail(c) ==
    /\ c \in callers
    /\ spc[c] \in {"print", "open", "write", "to_csv", "sync", "commit"}
    /\ fs' = Rollback(fs, c)
    /\ Catch(c)
    /\ UNCHANGED <<callers, sargs, mkres, tmpname, committed, before>>
    /\ UNCHANGED <<pvars, ovars>>

\* The state of the Parallelizer half while save_df_as_csv is explored.
ParIdle ==
    /\ ppc = "new"
    /\ parallelize = FALSE
    /\ processes = NoneV
    /\ f = [t \in TaskVals |-> Raises]
    /\ tasks = <<>>
    /\ pool = "none"
    /\ workers = {}
    /\ wchunk = <<>>
    /\ taskq = <<>>
    /\ outq = <<>>
    /\ mapres = NoMapRes
    /\ ret = NoRet
    /\ exc = NoneV
    /\ iter = NoIter
    /\ applied = <<>>
    /\ spawned = 0

\* One caller about to call save_df_as_csv(df, path, Filename, comment).
InitSave ==
    /\ ParIdle
    /\ OtherIdle
    /\ callers = {1}
    /\ fs \in InitFS
    /\ spc = [c \in callers |-> "call"]
    /\ sargs \in [callers -> [df : DfChoices, path : PathChoices,
                              comment : CommentChoices,
                              kwargs : KwargChoices]]
    /\ mkres = [c \in callers |-> NoneV]
    /\ tmpname = [c \in callers |-> NoneV]
    /\ sret = [c \in callers |-> EmptyStr]
    /\ committed = [c \in callers |-> FALSE]
    /\ before = [c \in callers |-> fs]

NextSave ==
    \/ \E c \in callers : SaveCheck(c)
    \/ \E c \in callers : SaveCreateDir(c)
    \/ \E c \in callers : SavePrint(c)
    \/ \E c \in callers : SaveOpen(c)
    \/ \E c \in callers : SaveWrite(c)
    \/ \E c \in callers : SaveToCsv(c)
    \/ \E c \in callers : SaveSync(c)
    \/ \E c \in callers : SaveCommit(c)
    \/ \E c \in callers : SaveFail(c)

SpecSave == InitSave /\ [][NextSave]_vars

\* The DataFrames of concurrent callers: one of each length 0..MaxRows.
ConcDfChoices ==
    {[isdf |-> TRUE, rows |-> [i \in 1..n |-> <<"x", NaN>>]] :
        n \in 0..MaxRows}

\* Two callers in save_df_as_csv at the same time, on the same path or on
\* different ones, each with a comment of its own.
InitConc ==
    /\ ParIdle
    /\ OtherIdle
    /\ callers = {1, 2}
    /\ fs \in InitFS
    /\ spc = [c \in callers |-> "call"]
    /\ sargs \in {a \in [callers -> [df : ConcDfChoices, path : PathChoices,
                                      comment : CommentChoices,
                                      kwargs : {"none"}]] :
                    a[1].comment = <<>> /\ a[2].comment # <<>>}
    /\ mkres = [c \in callers |-> NoneV]
    /\ tmpname = [c \in callers |-> NoneV]
    /\ sret = [c \in callers |-> EmptyStr]
    /\ committed = [c \in callers |-> FALSE]
    /\ before = [c \in callers |-> fs]

SpecConc == InitConc /\ [][NextSave]_vars

\* ============================================================= create_dir

\* A call create_dir(path); the log keeps its argument, its result and the
\* filesystem before and after it.
CreateDir(path) ==
    /\ Len(dcalls) < MaxDirCalls
    /\ \E o \in CreateDirOutcomes(fs, path) :
          /\ fs' = o.fs
          /\ dcalls' = Append(dcalls, [path |-> path, ok |-> o.ok,
                                       fsBefore |-> fs, fsAfter |-> o.fs])
    /\ UNCHANGED <<callers, spc, sargs, mkres, tmpname, sret, committed,
                   before>>
    /\ UNCHANGED <<first, instances, created, icalls>>
    /\ UNCHANGED pvars

\* A filesystem on which create_dir is about to be called, several times.
InitDir ==
    /\ ParIdle
    /\ first = NoFirst
    /\ instances = <<>>
    /\ created = {}
    /\ icalls = <<>>
    /\ dcalls = <<>>
    /\ fs \in InitFS
    /\ callers = {}
    /\ spc = <<>>
    /\ sargs = <<>>
    /\ mkres = <<>>
    /\ tmpname = <<>>
    /\ sret = <<>>
    /\ committed = <<>>
    /\ before = <<>>

NextDir == \E path \in PathChoices : CreateDir(path)

SpecDir == InitDir /\ [][NextDir]_vars

\* ============================================================== Singleton

Classes == {"A", "B"}                  \* classes with metaclass Singleton
ArgChoices == {1, 2}                   \* constructor arguments

\* Storing inst under cls in the registry.
Register(reg, cls, inst) ==
    [k \in DOMAIN reg \cup {cls} |-> IF k = cls THEN inst ELSE reg[k]]

\* A __call__ without the membership test: it constructs every time.
InstantiateAlways(cls, args) ==
    /\ Len(icalls) < MaxInstCalls
    /\ LET inst == [cls |-> cls, args |-> args,
                    serial |-> Cardinality(created) + 1]
       IN  /\ instances' = Register(instances, cls, inst)
           /\ created' = created \cup {inst}
           /\ icalls' = Append(icalls, [cls |-> cls, args |-> args,
                                        result |-> Some(inst)])
    /\ UNCHANGED <<first, dcalls>>
    /\ UNCHANGED <<pvars, svars>>

\* Singleton.__call__(cls, *args, **kwargs): a class that is not in
\* _instances is constructed (its constructor may raise, and then nothing is
\* stored) and stored; the stored instance is returned.
Instantiate(cls, args) ==
    /\ Len(icalls) < MaxInstCalls
    /\ IF cls \notin DOMAIN instances
       THEN \/ LET inst == [cls |-> cls, args |-> args,
                            serial |-> Cardinality(created) + 1]
               IN  /\ instances' = Register(instances, cls, inst)
                   /\ created' = created \cup {inst}
                   /\ icalls' = Append(icalls, [cls |-> cls, args |-> args,
                                                result |-> Some(inst)])
            \/ /\ icalls' = Append(icalls, [cls |-> cls, args |-> args,
                                             result |-> NoneV])
               /\ UNCHANGED <<instances, created>>
       ELSE /\ icalls' = Append(icalls, [cls |-> cls, args |-> args,
                                         result |-> Some(instances[cls])])
            /\ UNCHANGED <<instances, created>>
    /\ UNCHANGED <<first, dcalls>>
    /\ UNCHANGED <<pvars, svars>>

\* An empty registry.
InitSingleton ==
    /\ ParIdle
    /\ SaveIdle
    /\ OtherIdle

NextSingleton ==
    \E cls \in Classes, args \in ArgChoices : Instantiate(cls, args)

SpecSingleton == InitSingleton /\ [][NextSingleton]_vars

\* =============================================== claims on save_df_as_csv

NoData(c) == ~sargs[c].df.isdf \/ Len(sargs[c].df.rows) = 0
TmpLeft(fsys) == {q \in DOMAIN fsys :
                    q[Len(q)] \in {TmpName(c) : c \in callers}}

\* C2: a save that fails after its temporary file was created and before
\* the rename leaves the destination exactly as it was before the call (there
\* or not there), the destination never holds anything but its prior content
\* or the complete new content, and no temporary file is left once the call
\* has returned.
FailedWriteLeavesNoTrace ==
    \A c \in callers :
        /\ NodeAt(fs, Dest(c)) \in {NodeAt(before[c], Dest(c)),
                                    FileNode(FullContent(c))}
        /\ (spc[c] = "done" /\ tmpname[c] # NoneV /\ ~committed[c]) =>
              /\ sret[c] = EmptyStr
              /\ NodeAt(fs, Dest(c)) = NodeAt(before[c], Dest(c))
              /\ Files(fs) = Files(before[c])
        /\ spc[c] = "done" => TmpLeft(fs) = {}

\* A save over an older destination file has failed after its temporary file
\* was created.
FailedWriteWitness ==
    \E c \in callers :
        /\ spc[c] = "done"
        /\ tmpname[c] # NoneV
        /\ ~committed[c]
        /\ IsFile(before[c], Dest(c))

\* C8: save_df_as_csv never raises into the caller; it returns the joined
\* path exactly when the complete file has been moved into place, and the
\* empty string on every failure and on the no-op.
ReturnsPathIffSaved ==
    \A c \in callers :
        /\ spc[c] # "raised"
        /\ committed[c] => spc[c] = "done"
        /\ spc[c] = "done" =>
              /\ sret[c] \in {EmptyStr, Join(sargs[c].path, Filename)}
              /\ sret[c] = Join(sargs[c].path, Filename) <=> committed[c]
              /\ committed[c] =>
                    NodeAt(fs, Dest(c)) = FileNode(FullContent(c))
              /\ (NoData(c) \/ mkres[c] = Some(FALSE)) => sret[c] = EmptyStr

\* A save has returned the destination path after replacing an older file.
ReturnsPathWitness ==
    \E c \in callers :
        /\ spc[c] = "done"
        /\ sret[c] = Dest(c)
        /\ IsFile(before[c], Dest(c))
        /\ NodeAt(fs, Dest(c)) # NodeAt(before[c], Dest(c))

\* C9: create_dir comes before any file: no file is created or changed
\* before create_dir has returned True, and when it returns False the
\* call is over with "" and without having created or written any file.
DirEnsuredFirst ==
    \A c \in callers :
        /\ mkres[c] = NoneV => Files(fs) = Files(before[c])
        /\ (tmpname[c] # NoneV \/ committed[c]
            \/ spc[c] \in {"print", "open", "write", "to_csv", "sync",
                           "commit"}) =>
              mkres[c] = Some(TRUE) /\ IsDir(fs, sargs[c].path)
        /\ mkres[c] = Some(FALSE) =>
              /\ spc[c] = "done"
              /\ sret[c] = EmptyStr
              /\ tmpname[c] = NoneV
              /\ Files(fs) = Files(before[c])

\* create_dir has returned False after making part of the directories.
DirEnsuredFirstWitness ==
    \E c \in callers :
        /\ mkres[c] = Some(FALSE)
        /\ spc[c] = "done"
        /\ fs # before[c]

\* C10: a call with something that is not a DataFrame or with a DataFrame of
\* no rows returns "" and changes nothing in the filesystem: no directory
\* and no file is created, modified or removed.
NoOpOnEmpty ==
    \A c \in callers :
        NoData(c) =>
            /\ fs = before[c]
            /\ spc[c] \in {"call", "done"}
            /\ spc[c] = "done" => sret[c] = EmptyStr
            /\ mkres[c] = NoneV /\ tmpname[c] = NoneV /\ ~committed[c]

\* A call with a DataFrame of no rows has returned.
NoOpOnEmptyWitness ==
    \E c \in callers :
        /\ sargs[c].df.isdf
        /\ sargs[c].df.rows = <<>>
        /\ spc[c] = "done"

\* The call of c is over as a no-op / as a failure to save.
NoOp(c) == NoData(c) /\ spc[c] = "done"
Failed(c) == spc[c] \in {"done", "raised"} /\ ~NoData(c) /\ ~committed[c]

\* C11 as stated: what a call reports for a table of no rows differs from
\* what a call reports for a failed write.
NoOpDistinctFromFailure ==
    \A c, d \in callers : (NoOp(c) /\ Failed(d)) => sret[c] # sret[d]

\* C11 amended: a call for a table of no rows and a call whose directory
\* creation or write failed both return the empty string: the value
\* returned does not tell the no-op from the failure.
NoOpSameAsFailure ==
    \A c, d \in callers :
        (NoOp(c) /\ Failed(d)) =>
            /\ spc[d] = "done"
            /\ sret[c] = EmptyStr
            /\ sret[d] = EmptyStr

\* One call was a no-op and another failed after creating its temporary
\* file; both are over.
NoOpSameAsFailureWitness ==
    \E c, d \in callers : NoOp(c) /\ Failed(d) /\ tmpname[d] # NoneV

\* C12: with two callers at once, a destination holds at every moment its
\* prior content or the complete content of one writer to it; it changes
\* only by the rename of a writer to that very path, which puts that
\* writer's complete content there (so the last rename wins); a caller's
\* temporary file holds only what that caller has written so far.
ConcurrentWritesAtomic ==
    /\ [](\A c \in callers :
            /\ NodeAt(fs, Dest(c)) \in
                  {Absent, OldFile} \cup
                  {FileNode(FullContent(d)) :
                      d \in {e \in callers : Dest(e) = Dest(c)}}
            /\ TmpPath(c) \in DOMAIN fs =>
                  LET t == fs[TmpPath(c)].content
                  IN  /\ Len(t) <= Len(FullContent(c))
                      /\ t = SubSeq(FullContent(c), 1, Len(t)))
    /\ [][\A c \in callers :
            /\ NodeAt(fs', Dest(c)) # NodeAt(fs, Dest(c)) =>
                  \E d \in callers :
                      /\ Dest(d) = Dest(c)
                      /\ spc[d] = "commit" /\ committed'[d]
                      /\ NodeAt(fs', Dest(c)) = FileNode(FullContent(d))
            /\ (spc[c] = "commit" /\ committed'[c]) =>
                  NodeAt(fs', Dest(c)) = FileNode(FullContent(c))]_vars

\* Two calls that both started before either rename have both replaced the
\* same destination, and it holds the complete content of one of them.
ConcurrentWritesWitness ==
    /\ callers = {1, 2}
    /\ committed[1] /\ committed[2]
    /\ Dest(1) = Dest(2)
    /\ FullContent(1) # FullContent(2)
    /\ Files(before[1]) = Files(before[2])
    /\ NodeAt(fs, Dest(1)) = FileNode(FullContent(1))

FileInWay(fsys, path) ==
    \E k \in 1..Len(path) : IsFile(fsys, SubSeq(path, 1, k))

\* C14: create_dir is idempotent: a call that returns True has made the
\* path and every missing ancestor a directory and kept what was there, and
\* a call on the same path right after it returns True as well and leaves
\* the filesystem as the first call left it.
CreateDirIdempotent ==
    /\ \A k \in 1..Len(dcalls) :
          dcalls[k].ok =>
              /\ \A j \in 1..Len(dcalls[k].path) :
                    IsDir(dcalls[k].fsAfter, SubSeq(dcalls[k].path, 1, j))
              /\ \A q \in DOMAIN dcalls[k].fsBefore :
                    NodeAt(dcalls[k].fsAfter, q) = dcalls[k].fsBefore[q]
    /\ \A k \in 1..(Len(dcalls) - 1) :
          (dcalls[k].ok /\ dcalls[k + 1].path = dcalls[k].path) =>
              /\ dcalls[k + 1].ok
              /\ dcalls[k + 1].fsBefore = dcalls[k].fsAfter
              /\ dcalls[k + 1].fsAfter = dcalls[k].fsAfter

\* Two calls in a row on a/b, the first of which had to create a and a/b,
\* have both returned True.
CreateDirIdempotentWitness ==
    \E k \in 1..(Len(dcalls) - 1) :
        /\ dcalls[k].path = <<"a", "b">>
        /\ dcalls[k + 1].path = <<"a", "b">>
        /\ ~Exists(dcalls[k].fsBefore, <<"a">>)
        /\ dcalls[k].ok
        /\ dcalls[k + 1].ok

\* C15: create_dir always comes back with True or False: False when the
\* path or an ancestor is a regular file (nothing is changed then) and
\* whenever the path is not there as a directory in the end (a refused
\* mkdir); True only if the path is a directory when the call returns.
CreateDirReportsFailure ==
    \A k \in 1..Len(dcalls) :
        /\ dcalls[k].ok \in BOOLEAN
        /\ dcalls[k].ok => IsDir(dcalls[k].fsAfter, dcalls[k].path)
        /\ FileInWay(dcalls[k].fsBefore, dcalls[k].path) =>
              /\ ~dcalls[k].ok
              /\ dcalls[k].fsAfter = dcalls[k].fsBefore

\* A call on a/b has returned False because a is a regular file.
CreateDirReportsFailureWitness ==
    \E k \in 1..Len(dcalls) :
        /\ dcalls[k].path = <<"a", "b">>
        /\ IsFile(dcalls[k].fsBefore, <<"a">>)
        /\ ~dcalls[k].ok

ProvenanceLine ==
    <<"# Generated by lineage v{version}, https://github.com/apriha/lineage">>
TimestampLine == <<"# Generated at {utcnow} UTC">>

\* The lines of a saved file: the two generated comment lines, the caller's
\* comment, hdr header rows (1 or 0), then a line per row with its index and
\* its cells, a missing cell as "--".
Layout(t, a, hdr) ==
    LET k == Len(a.comment)
    IN  /\ Len(t) = 2 + k + hdr + Len(a.df.rows)
        /\ t[1] = ProvenanceLine
        /\ t[2] = TimestampLine
        /\ \A i \in 1..k : t[2 + i] = <<a.comment[i]>>
        /\ hdr = 1 => t[3 + k] = <<"", "c1", "c2">>
        /\ \A i \in 1..Len(a.df.rows) :
              LET line == t[2 + k + hdr + i]
                  row == a.df.rows[i]
              IN  /\ Len(line) = 1 + Len(row)
                  /\ line[1] = Digits[i]
                  /\ \A j \in 1..Len(row) :
                        /\ row[j] = NaN => line[1 + j] = "--"
                        /\ row[j] # NaN => line[1 + j] = row[j]

\* C16 as stated: after a successful save the destination holds the
\* provenance line, the timestamp line, the comment, the header row of
\* column names and a line per row, missing cells as "--".
SavedFileLayout ==
    \A c \in callers :
        committed[c] => Layout(fs[Dest(c)].content, sargs[c], 1)

\* C16 amended: the same, with the header row there unless the caller
\* passes header=False on to to_csv; with a na_rep keyword of the caller's
\* no save succeeds, so a missing cell is "--" in every saved file.
SavedFileLayoutByKwargs ==
    \A c \in callers :
        /\ committed[c] =>
              /\ sargs[c].kwargs # "na_rep"
              /\ Layout(fs[Dest(c)].content, sargs[c],
                        IF sargs[c].kwargs = "header=False" THEN 0 ELSE 1)
        /\ \A q \in DOMAIN Files(fs) : \A i \in 1..Len(fs[q].content) :
              \A j \in 1..Len(fs[q].content[i]) : fs[q].content[i][j] # NaN

\* A table of several rows with missing cells and a comment has been saved
\* with no extra keywords.
SavedFileLayoutWitness ==
    \E c \in callers :
        /\ committed[c]
        /\ sargs[c].kwargs = "none"
        /\ sargs[c].comment # <<>>
        /\ Len(sargs[c].df.rows) >= 2

\* C17: the registry holds at most one instance per class and that is the
\* only instance of the class ever constructed: it was made by the first
\* call for the class that returned, every call for the class returns it
\* whatever its arguments, and an entry is never replaced or removed.
SingletonRegistry ==
    /\ [](/\ \A cls \in DOMAIN instances :
                /\ instances[cls].cls = cls
                /\ instances[cls] \in created
                /\ \E k \in 1..Len(icalls) :
                      /\ icalls[k].cls = cls
                      /\ icalls[k].result # NoneV
                      /\ icalls[k].args = instances[cls].args
                      /\ \A j \in 1..(k - 1) :
                            icalls[j].cls = cls => icalls[j].result = NoneV
          /\ \A cls \in Classes :
                Cardinality({i \in created : i.cls = cls}) <= 1
          /\ \A k \in 1..Len(icalls) :
                icalls[k].result # NoneV =>
                    /\ icalls[k].cls \in DOMAIN instances
                    /\ icalls[k].result = Some(instances[icalls[k].cls]))
    /\ [][\A cls \in DOMAIN instances :
            cls \in DOMAIN instances' /\ instances'[cls] = instances[cls]]_vars

\* Both classes are registered and a later call for a class, with other
\* arguments than the first, has returned the instance of the first.
SingletonRegistryWitness ==
    /\ DOMAIN instances = Classes
    /\ \E j, k \in 1..Len(icalls) :
          /\ j < k
          /\ icalls[j].cls = icalls[k].cls
          /\ icalls[j].args # icalls[k].args
          /\ icalls[j].result # NoneV
          /\ icalls[k].result = icalls[j].result

====
